---------------------------- MODULE Spec2Model ----------------------------
(***************************************************************************)
(* A model of plumbum/localcmd.py: the scoped environment (_Env), the      *)
(* scoped working directory (_Workdir), the composable units (Command,     *)
(* Pipeline, Redirection), the execution engine (_run) and Future.         *)
(*                                                                         *)
(* The module holds these state machines, one specification each:         *)
(*   SpecEnv   _Env driven by a client that nests `with env(...)` blocks   *)
(*   SpecSnap  _Env driven by a client that holds on to spawned processes  *)
(*   SpecWd    _Workdir driven by a client that nests `with cwd(...)`      *)
(*   SpecPipe  popen()/run() of one composite unit                         *)
(*   SpecRedir popen()/run() of a unit inside nested Redirections          *)
(*   SpecRun   run() with the spawned processes exiting by themselves;     *)
(*             SpecRunLive adds the fairness of the operating system       *)
(*   SpecFut   a Future made by `unit & BG(retcode)` and its accessors     *)
(*   SpecRerun a Redirection to a file or from a payload, run repeatedly   *)
(* A specification leaves the variables of the other machines unchanged.   *)
(***************************************************************************)
EXTENDS Naturals, Sequences, FiniteSets, TLC

VARIABLES
    \* ---- _Env ----
    envstack,   \* _Env._envstack: a sequence of dicts (partial functions name -> value)
    path,       \* _Env.path: the parsed search-path list
    eblocks,    \* the client's active `with env(...)` blocks, innermost last:
                \*   what the client saw when it entered each of them
    eexc,       \* the exception propagating through the client, or "none"
    eleft,      \* <<>> or <<b>>: the block the last step left, with what the
                \*   client saw before entering it
    elast,      \* the operation of _Env the last step performed
    spawned,    \* the processes spawned with the ambient environment that the
                \*   client holds on to: the environment each was given, and the
                \*   active frame and search-path list when popen was called
    \* ---- _Workdir ----
    dirstack,   \* _Workdir._dirstack
    oscwd,      \* the OS-level current directory of the process
    wblocks,    \* the client's active `with cwd(...)` blocks
    wexc,       \* the exception propagating through the client, or "none"
    wleft,      \* <<>> or <<b>>: the block the last step left
    wlast,      \* the operation of _Workdir the last step performed
    \* ---- composable units, processes, _run ----
    unit,       \* the composable unit the client built
    caller,     \* <<stdin, stdout, stderr>>: the streams the client passes
    procs,      \* the processes spawned, in the order of their pids 1, 2, ...
    plog,       \* what the parent did, in order: spawns, closes, returns of Pipeline.popen
    pexc,       \* the exception the last call raised, or "none"
    phandle,    \* the pid of the handle the last popen returned, or 0
    pphase,     \* "built", then "spawned" (popen), "ran" (run) or "bg" (& BG)
    presult,    \* <<>>, or the <<returncode, stdout, stderr>> run() returned, or the
                \*   <<returncode, stdout, stderr, cmdline>> its ProcessExecutionError carries
    pcall,      \* <<>> or <<a>>: the arguments of the run() call, a.retcode the policy
                \*   passed, a.code and a.out what the waited-for process does
    \* ---- Future ----
    fut,        \* <<>> or <<f>>: the Future, f its fields
    fobs,       \* what the client's calls on the Future gave, in order
    \* ---- a Redirection and the files behind it ----
    files,      \* the file system: the contents of each file, by name
    wrapper,    \* <<>> or <<w>>: the Redirection the client built around a command,
                \*   w.stream the stream it redirects, w.file its open file object
                \*   (the file's name and the position of the open file), w.given
                \*   the input the client built it with
    runs        \* the runs of the wrapper, in order: what each process found on its
                \*   standard input and what it wrote to its standard output

envVars == <<envstack, path, eblocks, eexc, eleft, elast, spawned>>
wdVars  == <<dirstack, oscwd, wblocks, wexc, wleft, wlast>>
procVars == <<unit, caller, procs, plog, pexc, phandle, pphase, presult, pcall>>
futVars == <<fut, fobs>>
fileVars == <<files, wrapper, runs>>
vars    == <<envVars, wdVars, procVars, futVars, fileVars>>

(***************************************************************************)
(* Bounds of the model.                                                    *)
(***************************************************************************)
\* the deepest nesting of `with` blocks the client builds
MaxDepth == 2
\* the longest search-path list the client builds by editing env.path in place
MaxPathLen == 2
\* the most stages (commands) of a composite unit
MaxStages == 3
\* the most Redirection wrappers of a composite unit
MaxRedirs == 1
\* the most calls the client makes on a Future
MaxCalls == 3
\* the most Redirection wrappers the client nests around one unit
MaxWraps == 2
\* the most spawned processes the client holds on to
MaxSpawned == 1
\* the most runs of one Redirection
MaxRuns == 2

(***************************************************************************)
(* Strings are sequences of one-character strings, so that split and join   *)
(* are computed as Python computes them.                                    *)
(***************************************************************************)
\* os.path.pathsep
pathsep == ":"

\* s.split(sep): the segments of s between the separators; "" splits to [""]
RECURSIVE SplitFrom(_, _, _)
SplitFrom(s, sep, cur) ==
    IF s = <<>> THEN <<cur>>
    ELSE IF Head(s) = sep THEN <<cur>> \o SplitFrom(Tail(s), sep, <<>>)
    ELSE SplitFrom(Tail(s), sep, Append(cur, Head(s)))

Split(s, sep) == SplitFrom(s, sep, <<>>)

\* sep.join(parts)
RECURSIVE Join(_, _)
Join(parts, sep) ==
    IF parts = <<>> THEN <<>>
    ELSE IF Len(parts) = 1 THEN parts[1]
    ELSE parts[1] \o <<sep>> \o Join(Tail(parts), sep)

\* plumbum.path.Path(p) and str(Path(p)): the path abstraction is outside this
\* file; it is taken to supply the string it was built from.
PathOf(p) == p
StrOf(p) == p

(***************************************************************************)
(* Python dicts are partial functions.                                     *)
(***************************************************************************)
DictSet(d, k, v) == [x \in (DOMAIN d) \cup {k} |-> IF x = k THEN v ELSE d[x]]
DictUpdate(d, kw) ==
    [x \in (DOMAIN d) \cup (DOMAIN kw) |-> IF x \in DOMAIN kw THEN kw[x] ELSE d[x]]
DictDel(d, k) == [x \in (DOMAIN d) \ {k} |-> d[x]]

Last(s) == s[Len(s)]
Front(s) == SubSeq(s, 1, Len(s) - 1)
SetLast(s, v) == [s EXCEPT ![Len(s)] = v]

(***************************************************************************)
(* The values the client works with.                                       *)
(***************************************************************************)
Names == {"PATH", "FOO"}
PathVals == { <<"a">>, <<"a", ":", "b">> }
FooVals == { <<"1">> }
ValsOf(n) == IF n = "PATH" THEN PathVals ELSE FooVals
\* the keyword arguments of env(**kwargs) and update(**kwargs)
Overrides ==
    UNION { { kw \in [D -> PathVals \cup FooVals] : \A n \in D : kw[n] \in ValsOf(n) }
            : D \in SUBSET Names }
\* the entries the client appends to env.path in place
ExtraDirs == { <<"x">> }


(***************************************************************************)
(* _Env                                                                    *)
(***************************************************************************)
\* _Env._update_path: self["PATH"] raises KeyError when the active frame has no PATH
UpdatePathRaises(stack) == "PATH" \notin DOMAIN Last(stack)

\* _Env._update_path: [Path(p) for p in self["PATH"].split(os.path.pathsep)]
UpdatePath(stack) ==
    LET parts == Split(Last(stack)["PATH"], pathsep)
    IN  [i \in 1..Len(parts) |-> PathOf(parts[i])]

\* _Env.getdict, its write: self._envstack[-1]["PATH"] = pathsep.join(str(p) for p in self.path)
GetdictStack(stack, pth) ==
    SetLast(stack, DictSet(Last(stack), "PATH",
                           Join([i \in 1..Len(pth) |-> StrOf(pth[i])], pathsep)))

\* a getdict that makes its dict of the active frame as it finds it
GetdictBeforeWrite(stack, pth) == Last(stack)

\* _Env.getdict, its result: the active frame after the write, as a dict of strings
Getdict(stack, pth) == Last(GetdictStack(stack, pth))

\* What the client sees of the environment: the active frame, read variable by
\* variable (__contains__, __getitem__), and the dict the next spawn would hand
\* to its process.
EnvView(stack, pth) ==
    [frame |-> Last(stack), handed |-> Getdict(stack, pth), depth |-> Len(stack)]

\* One `with env(...)` block of the client: the view before the block, whether a
\* nested block was entered and left inside it, whether its body did only
\* single-variable writes, spawns and raises, and how it ended.
EnvBlock(stack, pth) ==
    [before |-> EnvView(stack, pth), nested |-> FALSE, plain |-> TRUE, how |-> "open"]

\* the body of every active block did something else than the plain operations
Unplain(blocks) == [i \in 1..Len(blocks) |-> [blocks[i] EXCEPT !.plain = FALSE]]

\* the innermost block is left; the enclosing block has had a nested block
LeaveBlock(blocks) ==
    LET rest == Front(blocks)
    IN  IF rest = <<>> THEN rest ELSE SetLast(rest, [Last(rest) EXCEPT !.nested = TRUE])

EnvInit ==
    /\ \E e \in Overrides : "PATH" \in DOMAIN e /\ envstack = <<e>>
    /\ path = UpdatePath(envstack)
    /\ eblocks = <<>>
    /\ eexc = "none"
    /\ eleft = <<>>
    /\ elast = "init"
    /\ spawned = <<>>

\* _Env.__setitem__
EnvSetItem(n, v) ==
    /\ UNCHANGED <<wdVars, procVars, futVars, spawned, fileVars>>
    /\ eexc = "none"
    /\ envstack' = SetLast(envstack, DictSet(Last(envstack), n, v))
    /\ path' = IF n = "PATH" THEN UpdatePath(envstack') ELSE path
    /\ elast' = IF n = "PATH" THEN "set PATH" ELSE "set"
    /\ eleft' = <<>>
    /\ UNCHANGED <<eblocks, eexc>>

\* _Env.update
EnvUpdate(kw) ==
    /\ UNCHANGED <<wdVars, procVars, futVars, spawned, fileVars>>
    /\ eexc = "none"
    /\ envstack' = SetLast(envstack, DictUpdate(Last(envstack), kw))
    /\ IF UpdatePathRaises(envstack')
          THEN path' = path /\ eexc' = "KeyError"
          ELSE path' = UpdatePath(envstack') /\ eexc' = eexc
    /\ eblocks' = Unplain(eblocks)
    /\ elast' = "update"
    /\ eleft' = <<>>

\* _Env.__delitem__
EnvDelItem(n) ==
    /\ UNCHANGED <<wdVars, procVars, futVars, spawned, fileVars>>
    /\ eexc = "none"
    /\ IF n \in DOMAIN Last(envstack)
          THEN envstack' = SetLast(envstack, DictDel(Last(envstack), n)) /\ eexc' = eexc
          ELSE envstack' = envstack /\ eexc' = "KeyError"
    /\ eblocks' = Unplain(eblocks)
    /\ elast' = "del"
    /\ eleft' = <<>>
    /\ UNCHANGED path

\* the client edits the list in place: env.path.append(d)
EnvPathAppend(d) ==
    /\ UNCHANGED <<wdVars, procVars, futVars, spawned, fileVars>>
    /\ eexc = "none"
    /\ Len(path) < MaxPathLen
    /\ path' = Append(path, PathOf(d))
    /\ eblocks' = Unplain(eblocks)
    /\ elast' = "append"
    /\ eleft' = <<>>
    /\ UNCHANGED <<envstack, eexc>>

\* Command.popen with the ambient environment: env = self.env.getdict(), and
\* Popen(..., env = env) gives the process the contents of that dict; keep says
\* whether the client holds on to the process
EnvSpawn(keep) ==
    /\ UNCHANGED <<wdVars, procVars, futVars, fileVars>>
    /\ eexc = "none"
    /\ keep => Len(spawned) < MaxSpawned
    /\ envstack' = GetdictStack(envstack, path)
    /\ spawned' = IF keep
                     THEN Append(spawned, [env |-> Getdict(envstack, path),
                                           frame |-> Last(envstack), path |-> path])
                     ELSE spawned
    /\ elast' = "spawn"
    /\ eleft' = <<>>
    /\ UNCHANGED <<path, eblocks, eexc>>

\* _Env.__call__ up to the yield: push a copy, update(**kwargs); an exception of
\* update is raised before the try, so nothing pops the new frame
EnvEnter(kw) ==
    /\ UNCHANGED <<wdVars, procVars, futVars, spawned, fileVars>>
    /\ eexc = "none"
    /\ Len(eblocks) < MaxDepth
    /\ Len(envstack) <= MaxDepth
    /\ LET pushed == Append(envstack, Last(envstack))
           updated == SetLast(pushed, DictUpdate(Last(pushed), kw))
           blk == EnvBlock(envstack, path)
       IN  /\ envstack' = updated
           /\ IF UpdatePathRaises(updated)
                 THEN /\ path' = path
                      /\ eexc' = "KeyError"
                      /\ eblocks' = eblocks
                      /\ eleft' = << [blk EXCEPT !.how = "entry raised"] >>
                 ELSE /\ path' = UpdatePath(updated)
                      /\ eexc' = eexc
                      /\ eblocks' = Append(eblocks, blk)
                      /\ eleft' = <<>>
    /\ elast' = "enter"

\* the finally clause of _Env.__call__, in the order of the code:
\* self._update_path() and then self._envstack.pop(-1)
EnvExitStep(stack, pth) ==
    IF UpdatePathRaises(stack)
       THEN [stack |-> stack, path |-> pth, raised |-> TRUE]
       ELSE [stack |-> Front(stack), path |-> UpdatePath(stack), raised |-> FALSE]

\* _Env.__call__ from the yield on: the block ends, normally or by an exception
\* of its body, and the finally clause runs
EnvExit ==
    /\ UNCHANGED <<wdVars, procVars, futVars, spawned, fileVars>>
    /\ eblocks # <<>>
    /\ LET r == EnvExitStep(envstack, path)
       IN  /\ envstack' = r.stack
           /\ path' = r.path
           /\ eexc' = IF r.raised THEN "KeyError" ELSE eexc
    /\ elast' = "exit"
    /\ eleft' = << [Last(eblocks) EXCEPT
                      !.how = IF eexc = "none" THEN "normal" ELSE "body raised"] >>
    /\ eblocks' = LeaveBlock(eblocks)

\* the body of the innermost block raises
EnvRaise ==
    /\ UNCHANGED <<wdVars, procVars, futVars, spawned, fileVars>>
    /\ eexc = "none"
    /\ eblocks # <<>>
    /\ eexc' = "Error"
    /\ elast' = "raise"
    /\ eleft' = <<>>
    /\ UNCHANGED <<envstack, path, eblocks>>

\* the client catches the propagating exception (try/except at the current level)
EnvCatch ==
    /\ UNCHANGED <<wdVars, procVars, futVars, spawned, fileVars>>
    /\ eexc # "none"
    /\ eexc' = "none"
    /\ elast' = "catch"
    /\ eleft' = <<>>
    /\ UNCHANGED <<envstack, path, eblocks>>

EnvNext ==
    \/ \E n \in Names : \E v \in ValsOf(n) : EnvSetItem(n, v)
    \/ \E kw \in Overrides : EnvUpdate(kw)
    \/ \E n \in Names : EnvDelItem(n)
    \/ \E d \in ExtraDirs : EnvPathAppend(d)
    \/ EnvSpawn(FALSE)
    \/ \E kw \in Overrides : EnvEnter(kw)
    \/ EnvExit
    \/ EnvRaise
    \/ EnvCatch

\* the value that client writes to a variable, and the keyword arguments it
\* gives to env(**kwargs) and update(**kwargs): other values than the initial ones
SnapValue(n) == IF n = "PATH" THEN <<"a", ":", "b">> ELSE <<"1">>
SnapOverrides == { [n \in Names |-> SnapValue(n)] }

\* a client that spawns processes, holds on to them, and goes on changing the
\* context: variable writes, updates, in-place edits of the search path, scopes
SnapNext ==
    \/ \E n \in Names : EnvSetItem(n, SnapValue(n))
    \/ \E kw \in SnapOverrides : EnvUpdate(kw)
    \/ \E d \in ExtraDirs : EnvPathAppend(d)
    \/ EnvSpawn(TRUE)
    \/ \E kw \in SnapOverrides : EnvEnter(kw)
    \/ EnvExit


(***************************************************************************)
(* _Workdir                                                                *)
(***************************************************************************)
\* the directories that exist, and one that does not
ExistingDirs == {"/", "/a", "/b"}
MissingDirs == {"/gone"}
Dirs == ExistingDirs \cup MissingDirs
\* the placeholder _Workdir.__call__ pushes; str(None) names no directory
None == "None"

\* os.chdir(str(dir)) raises OSError when the directory does not exist
ChdirRaises(d) == StrOf(d) \notin ExistingDirs

\* _Workdir.chdir: os.chdir(str(dir)); self._dirstack[-1] = Path(dir)
Chdir(stack, os, d) ==
    IF ChdirRaises(d)
       THEN [stack |-> stack, os |-> os, raised |-> TRUE]
       ELSE [stack |-> SetLast(stack, PathOf(d)), os |-> StrOf(d), raised |-> FALSE]

\* what the client sees of the working directory
WdView(stack, os) == [top |-> Last(stack), os |-> os, depth |-> Len(stack)]

WdBlock(stack, os) == [before |-> WdView(stack, os), how |-> "open"]

WdInit ==
    /\ \E d \in ExistingDirs : dirstack = <<d>> /\ oscwd = d
    /\ wblocks = <<>>
    /\ wexc = "none"
    /\ wleft = <<>>
    /\ wlast = "init"

\* a direct cwd.chdir(d)
WdChdir(d) ==
    /\ UNCHANGED <<envVars, procVars, futVars, fileVars>>
    /\ wexc = "none"
    /\ LET r == Chdir(dirstack, oscwd, d)
       IN  /\ dirstack' = r.stack
           /\ oscwd' = r.os
           /\ wexc' = IF r.raised THEN "OSError" ELSE wexc
           /\ wlast' = IF r.raised THEN "chdir raised" ELSE "chdir"
    /\ wleft' = <<>>
    /\ UNCHANGED wblocks

\* _Workdir.__call__ up to the yield: self._dirstack.append(None); self.chdir(dir);
\* an exception of chdir is raised before the try, so nothing pops the placeholder
WdEnter(d) ==
    /\ UNCHANGED <<envVars, procVars, futVars, fileVars>>
    /\ wexc = "none"
    /\ Len(wblocks) < MaxDepth
    /\ Len(dirstack) <= MaxDepth
    /\ LET r == Chdir(Append(dirstack, None), oscwd, d)
           blk == WdBlock(dirstack, oscwd)
       IN  /\ dirstack' = r.stack
           /\ oscwd' = r.os
           /\ IF r.raised
                 THEN /\ wexc' = "OSError"
                      /\ wblocks' = wblocks
                      /\ wleft' = << [blk EXCEPT !.how = "entry raised"] >>
                      /\ wlast' = "enter raised"
                 ELSE /\ wexc' = wexc
                      /\ wblocks' = Append(wblocks, blk)
                      /\ wleft' = <<>>
                      /\ wlast' = "enter"

\* the finally clause of _Workdir.__call__:
\* self._dirstack.pop(-1); self.chdir(self._dirstack[-1])
WdExitStep(stack, os) == Chdir(Front(stack), os, Last(Front(stack)))

\* _Workdir.__call__ from the yield on: the block ends, normally or by an
\* exception of its body, and the finally clause runs
WdExit ==
    /\ UNCHANGED <<envVars, procVars, futVars, fileVars>>
    /\ wblocks # <<>>
    /\ LET r == WdExitStep(dirstack, oscwd)
       IN  /\ dirstack' = r.stack
           /\ oscwd' = r.os
           /\ wexc' = IF r.raised THEN "OSError" ELSE wexc
    /\ wleft' = << [Last(wblocks) EXCEPT
                      !.how = IF wexc = "none" THEN "normal" ELSE "body raised"] >>
    /\ wblocks' = Front(wblocks)
    /\ wlast' = "exit"

\* the body of the innermost block raises
WdRaise ==
    /\ UNCHANGED <<envVars, procVars, futVars, fileVars>>
    /\ wexc = "none"
    /\ wblocks # <<>>
    /\ wexc' = "Error"
    /\ wleft' = <<>>
    /\ wlast' = "raise"
    /\ UNCHANGED <<dirstack, oscwd, wblocks>>

\* the client catches the propagating exception
WdCatch ==
    /\ UNCHANGED <<envVars, procVars, futVars, fileVars>>
    /\ wexc # "none"
    /\ wexc' = "none"
    /\ wleft' = <<>>
    /\ wlast' = "catch"
    /\ UNCHANGED <<dirstack, oscwd, wblocks>>

WdNext ==
    \/ \E d \in Dirs : WdChdir(d)
    \/ \E d \in Dirs : WdEnter(d)
    \/ WdExit
    \/ WdRaise
    \/ WdCatch

(***************************************************************************)
(* Composable units: Command, Pipeline, Redirection                        *)
(***************************************************************************)
\* subprocess.PIPE
PIPE == <<"PIPE">>
\* Python's None where a stream is expected: as an argument the child inherits
\* the parent's stream, as an attribute of a process there is no pipe to it
NoHandle == <<"None">>
\* an open file object
File(n) == <<"file", n>>
\* the parent's end of a pipe to a process: proc.stdout, proc.stderr
Handle(pid, stream) == <<"h", pid, stream>>

\* Command(executable) or BoundCommand(cmd, args)
Cmd(exe) == <<"cmd", exe>>
\* Pipeline(srccmd, dstcmd)
Pipe(src, dst) == <<"pipe", src, dst>>
\* Redirection(cmd, stdin_file, stdout_file, stderr_file); PIPE is pass-through
Redir(cmd, i, o, e) == <<"redir", cmd, i, o, e>>

\* the executables of a unit's commands, by their position in the unit
ExeNames == <<"a", "b", "c", "d", "e">>
RedirFiles == {File("f")}

\* ChainableCommand.__lt__, __gt__, __ge__: one stream redirected
RedirsOf(u) ==
    UNION { { Redir(u, f, PIPE, PIPE), Redir(u, PIPE, f, PIPE), Redir(u, PIPE, PIPE, f) }
            : f \in RedirFiles }

\* the units of n commands, the first of them ExeNames[first], and at most r
\* Redirection wrappers, built with | < > >=
RECURSIVE UnitsOf(_, _, _)
UnitsOf(n, r, first) ==
    LET bare == IF n = 1 THEN { Cmd(ExeNames[first]) }
                ELSE UNION { UNION { { Pipe(sd[1], sd[2]) :
                                         sd \in UnitsOf(k, r1, first)
                                                \X UnitsOf(n - k, r - r1, first + k) }
                                     : r1 \in 0..r }
                             : k \in 1..(n - 1) }
        wrapped == IF r = 0 THEN {} ELSE UNION { RedirsOf(u) : u \in UnitsOf(n, r - 1, first) }
    IN  bare \cup wrapped

Units == UNION { UnitsOf(n, MaxRedirs, 1) : n \in 1..MaxStages }

\* the files the client redirects to when it nests wrappers
WrapFiles == {File("f"), File("g")}

\* u with up to n more Redirection wrappers around it, each built with < > >=
RECURSIVE Wrapped(_, _)
Wrapped(u, n) ==
    IF n = 0 THEN {u}
    ELSE {u} \cup UNION { { Redir(vf[1], vf[2], PIPE, PIPE),
                             Redir(vf[1], PIPE, vf[2], PIPE),
                             Redir(vf[1], PIPE, PIPE, vf[2]) }
                           : vf \in Wrapped(u, n - 1) \X WrapFiles }

\* a command and a pipeline of two, inside nested wrappers
WrappedUnits == Wrapped(Cmd("a"), MaxWraps) \cup Wrapped(Pipe(Cmd("a"), Cmd("b")), MaxWraps)

\* the executables of a unit's commands, left to right
RECURSIVE Leaves(_)
Leaves(u) ==
    IF u[1] = "cmd" THEN <<u[2]>>
    ELSE IF u[1] = "redir" THEN Leaves(u[2])
    ELSE Leaves(u[2]) \o Leaves(u[3])

RECURSIVE HasRedir(_)
HasRedir(u) ==
    IF u[1] = "cmd" THEN FALSE
    ELSE IF u[1] = "redir" THEN TRUE
    ELSE HasRedir(u[2]) \/ HasRedir(u[3])

\* the streams a client passes to popen/run: the defaults, the streams of & FG,
\* and open files for all or some of the streams
Callers ==
    { <<PIPE, PIPE, PIPE>>,
      <<NoHandle, NoHandle, NoHandle>>,
      <<File("in"), File("out"), File("err")>>,
      <<PIPE, File("out"), PIPE>>,
      <<File("in"), PIPE, File("err")>> }

(***************************************************************************)
(* popen: the parent's state while it spawns is st = [procs, log, exc]      *)
(***************************************************************************)
\* subprocess.Popen as Command.popen calls it: the child gets the three streams
\* (PIPE: a new pipe, whose other end is the attribute of the process), the
\* process gets the next pid. Of a process: exit is <<>> while it runs and <<c>>
\* once it has exited with the code c; rc is proc.returncode, <<>> for None;
\* comm counts the calls of proc.communicate()
SpawnCmd(exe, i, o, e, st) ==
    LET pid == Len(st.procs) + 1
        attr(x) == IF x = PIPE THEN "open" ELSE "none"
        p == [exe |-> exe, cin |-> i, cout |-> o, cerr |-> e,
              hin |-> attr(i), hout |-> attr(o), herr |-> attr(e),
              srcproc |-> 0, exit |-> <<>>, rc |-> <<>>, comm |-> 0]
    IN  [st |-> [st EXCEPT !.procs = Append(@, p), !.log = Append(@, <<"spawn", pid>>)],
         h |-> pid]

\* srcproc.stdout as an expression: the pipe's file object, or None
StdoutAttr(st, pid) ==
    IF st.procs[pid].hout = "none" THEN NoHandle ELSE Handle(pid, "stdout")

\* srcproc.stdout.close(): AttributeError when the attribute is None
CloseStdout(st, pid) ==
    IF st.exc # "none" THEN st
    ELSE IF st.procs[pid].hout = "none" THEN [st EXCEPT !.exc = "AttributeError"]
    ELSE [st EXCEPT !.procs[pid].hout = "closed",
                    !.log = Append(@, <<"close", pid, "stdout">>)]

\* srcproc.stderr.close(): AttributeError when the attribute is None
CloseStderr(st, pid) ==
    IF st.exc # "none" THEN st
    ELSE IF st.procs[pid].herr = "none" THEN [st EXCEPT !.exc = "AttributeError"]
    ELSE [st EXCEPT !.procs[pid].herr = "closed",
                    !.log = Append(@, <<"close", pid, "stderr">>)]

\* a Pipeline.popen that hands the caller's stderr to the source as well
SrcStreamsCallerErr(i, o, e) == <<i, PIPE, e>>

\* Pipeline.popen, line 229: self.srccmd.popen(stdin = stdin, stderr = PIPE)
SrcStreams(i, o, e) == <<i, PIPE, PIPE>>

\* Pipeline.popen, line 230: self.dstcmd.popen(stdin = srcproc.stdout,
\* stdout = stdout, stderr = stderr)
DstStreams(srcout, o, e) == <<srcout, o, e>>

\* a Redirection.popen that lets the endpoint it is called with win
RedirStreamsOuterWins(u, i, o, e) ==
    << IF i # PIPE THEN i ELSE u[3],
       IF o # PIPE THEN o ELSE u[4],
       IF e # PIPE THEN e ELSE u[5] >>

\* Redirection.popen: a concrete endpoint of the wrapper replaces the caller's
RedirStreams(u, i, o, e) ==
    << IF u[3] # PIPE THEN u[3] ELSE i,
       IF u[4] # PIPE THEN u[4] ELSE o,
       IF u[5] # PIPE THEN u[5] ELSE e >>

RECURSIVE PopenUnit(_, _, _, _, _)

\* a Pipeline.popen that closes the source's pipes before it spawns the destination
PipelineFinishCloseFirst(u, o, e, r1, lo1) ==
    LET lo2 == Len(r1.st.procs) + 1
        a2 == DstStreams(StdoutAttr(r1.st, r1.h), o, e)
        closed == CloseStderr(CloseStdout(r1.st, r1.h), r1.h)
        r2 == PopenUnit(u[3], a2[1], a2[2], a2[3], closed)
        done == [r2.st EXCEPT
                   !.procs[r2.h].srcproc = r1.h,
                   !.log = Append(@, <<"return", r1.h, r2.h, lo1, lo2, Len(r2.st.procs)>>)]
    IN  IF closed.exc # "none" THEN [st |-> closed, h |-> 0]
        ELSE IF r2.st.exc # "none" THEN [st |-> r2.st, h |-> 0]
        ELSE [st |-> done, h |-> r2.h]

\* Pipeline.popen after the source was spawned (r1, its processes from pid lo1 on):
\* spawn the destination, close the source's stdout and stderr, set srcproc
PipelineFinish(u, o, e, r1, lo1) ==
    LET lo2 == Len(r1.st.procs) + 1
        a2 == DstStreams(StdoutAttr(r1.st, r1.h), o, e)
        r2 == PopenUnit(u[3], a2[1], a2[2], a2[3], r1.st)
        closed == CloseStderr(CloseStdout(r2.st, r1.h), r1.h)
        done == [closed EXCEPT
                   !.procs[r2.h].srcproc = r1.h,
                   !.log = Append(@, <<"return", r1.h, r2.h, lo1, lo2, Len(closed.procs)>>)]
    IN  IF r2.st.exc # "none" THEN [st |-> r2.st, h |-> 0]
        ELSE IF closed.exc # "none" THEN [st |-> closed, h |-> 0]
        ELSE [st |-> done, h |-> r2.h]

\* Pipeline.popen
PipelinePopen(u, i, o, e, st) ==
    LET lo1 == Len(st.procs) + 1
        a1 == SrcStreams(i, o, e)
        r1 == PopenUnit(u[2], a1[1], a1[2], a1[3], st)
    IN  IF r1.st.exc # "none" THEN [st |-> r1.st, h |-> 0]
        ELSE PipelineFinish(u, o, e, r1, lo1)

\* popen of any composable unit: Command.popen, Redirection.popen, Pipeline.popen
PopenUnit(u, i, o, e, st) ==
    IF u[1] = "cmd" THEN SpawnCmd(u[2], i, o, e, st)
    ELSE IF u[1] = "redir"
         THEN LET a == RedirStreams(u, i, o, e) IN PopenUnit(u[2], a[1], a[2], a[3], st)
    ELSE PipelinePopen(u, i, o, e, st)

(***************************************************************************)
(* _run                                                                    *)
(***************************************************************************)
ExitCodes == {0, 1}
\* what a process writes to its stdout and its stderr
Outputs == { <<"", "">>, <<"x", "y">> }
\* Python's None as a captured text
NoText == "<None>"

\* the expected-exit-code policies: an integer, None (accept any), a set
IntPolicy(n) == <<"int", n>>
AnyPolicy == <<"any">>
SetPolicy(S) == <<"set", S>>
Policies == { IntPolicy(0), IntPolicy(1), AnyPolicy, SetPolicy({0}) }
\* the retcode argument left out of the call
Omitted == <<"omitted">>
\* what a client passes as retcode to run()
RetcodeArgs == Policies \cup {Omitted}

\* a run() whose retcode parameter defaults to 1
RetcodeDefaultOne(arg) == IF arg = Omitted THEN IntPolicy(1) ELSE arg

\* the parameter retcode = 0 of Command.run, Pipeline.run and Redirection.run
Retcode(arg) == IF arg = Omitted THEN IntPolicy(0) ELSE arg

\* _run, line 141: retcode is not None and proc.returncode != retcode
\* (an integer never equals a set)
Mismatch(rc, pol) ==
    IF pol = AnyPolicy THEN FALSE
    ELSE IF pol[1] = "int" THEN rc # pol[2]
    ELSE TRUE

\* _run, lines 137-140: if not stdout: stdout = ""
Norm(t) == IF t = NoText \/ t = "" THEN "" ELSE t

\* proc.communicate() of Python 2.7: ValueError on a pipe closed before (flush,
\* fileno or read of a closed file; closing stdin again is no error when it is the
\* only pipe); else wait for the process, which exits with the code c unless it
\* has exited before, read its pipes to the end and close them
CommunicateRaises(p) ==
    LET nNone == Cardinality({ k \in {"hin", "hout", "herr"} : p[k] = "none" })
    IN  \/ p.hout = "closed"
        \/ p.herr = "closed"
        \/ (p.hin = "closed" /\ nNone < 2)

Communicate(st, h, c, out) ==
    LET p == st.procs[h]
        shut(x) == IF x = "open" THEN "closed" ELSE x
    IN  IF CommunicateRaises(p)
           THEN [st |-> [st EXCEPT !.procs[h].comm = @ + 1],
                 raised |-> TRUE, out |-> NoText, err |-> NoText]
           ELSE [st |-> [st EXCEPT !.procs[h] =
                            [p EXCEPT !.exit = IF p.exit = <<>> THEN <<c>> ELSE p.exit,
                                      !.rc = IF p.rc # <<>> THEN p.rc
                                             ELSE IF p.exit # <<>> THEN p.exit ELSE <<c>>,
                                      !.comm = @ + 1,
                                      !.hin = shut(p.hin),
                                      !.hout = shut(p.hout),
                                      !.herr = shut(p.herr)]],
                 raised |-> FALSE,
                 out |-> IF p.hout = "open" THEN out[1] ELSE NoText,
                 err |-> IF p.herr = "open" THEN out[2] ELSE NoText]

\* proc.cmdline, set by Command.popen: [str(self.executable)] + the arguments
Cmdline(p) == <<p.exe>>

\* _run(proc, retcode): [st, exc, result]; result is the triple returned, or what
\* the ProcessExecutionError carries: retcode, stdout, stderr and cmdline
RunProc(st, h, pol, c, out) ==
    LET r == Communicate(st, h, c, out)
        rc == r.st.procs[h].rc[1]
        res == <<rc, Norm(r.out), Norm(r.err)>>
    IN  IF r.raised THEN [st |-> r.st, exc |-> "ValueError", result |-> <<>>]
        ELSE IF Mismatch(rc, pol)
             THEN [st |-> r.st, exc |-> "ProcessExecutionError",
                   result |-> Append(res, Cmdline(r.st.procs[h]))]
        ELSE [st |-> r.st, exc |-> "none", result |-> res]

ProcInit ==
    /\ unit \in Units
    /\ caller \in Callers
    /\ procs = <<>>
    /\ plog = <<>>
    /\ pexc = "none"
    /\ phandle = 0
    /\ pphase = "built"
    /\ presult = <<>>
    /\ pcall = <<>>

\* unit.popen(stdin, stdout, stderr)
UnitPopen ==
    /\ UNCHANGED <<envVars, wdVars, futVars, fileVars>>
    /\ pphase = "built"
    /\ LET r == PopenUnit(unit, caller[1], caller[2], caller[3],
                          [procs |-> procs, log |-> plog, exc |-> "none"])
       IN  /\ procs' = r.st.procs
           /\ plog' = r.st.log
           /\ pexc' = r.st.exc
           /\ phandle' = r.h
    /\ pphase' = "spawned"
    /\ UNCHANGED <<unit, caller, presult, pcall>>

\* unit.run(retcode, stdin, stdout, stderr): _run(self.popen(...), retcode)
UnitRun(arg, c, out) ==
    /\ UNCHANGED <<envVars, wdVars, futVars, fileVars>>
    /\ pphase = "built"
    /\ pcall' = << [retcode |-> arg, code |-> c, out |-> out] >>
    /\ LET r == PopenUnit(unit, caller[1], caller[2], caller[3],
                          [procs |-> procs, log |-> plog, exc |-> "none"])
           w == RunProc(r.st, r.h, Retcode(arg), c, out)
       IN  IF r.st.exc # "none"
              THEN /\ procs' = r.st.procs
                   /\ plog' = r.st.log
                   /\ pexc' = r.st.exc
                   /\ phandle' = r.h
                   /\ presult' = <<>>
              ELSE /\ procs' = w.st.procs
                   /\ plog' = w.st.log
                   /\ pexc' = w.exc
                   /\ phandle' = r.h
                   /\ presult' = w.result
    /\ pphase' = "ran"
    /\ UNCHANGED <<unit, caller>>

\* unit.run(retcode, ...) up to the point where proc.communicate() blocks: the
\* unit is spawned and the parent waits for the process of the returned handle
RunBegin(arg) ==
    /\ UNCHANGED <<envVars, wdVars, futVars, fileVars>>
    /\ pphase = "built"
    /\ pcall' = << [retcode |-> arg] >>
    /\ LET r == PopenUnit(unit, caller[1], caller[2], caller[3],
                          [procs |-> procs, log |-> plog, exc |-> "none"])
       IN  /\ procs' = r.st.procs
           /\ plog' = r.st.log
           /\ pexc' = r.st.exc
           /\ phandle' = r.h
           /\ pphase' = IF r.st.exc # "none" THEN "ran" ELSE "waiting"
    /\ UNCHANGED <<unit, caller, presult>>

\* the standard input of process k is at its end, or comes to it: a file ends; a
\* pipe from the parent ends once the parent has closed its end, which
\* proc.communicate() does before it waits (and nothing else does); the pipe
\* from an upstream stage ends once that stage has exited; a stream
\* inherited from the parent need never end
StdinAtEof(k) ==
    LET p == procs[k]
    IN  IF p.cin = PIPE THEN p.hin = "closed" \/ (pphase = "waiting" /\ k = phandle)
        ELSE IF p.cin[1] = "h" THEN procs[p.cin[2]].exit # <<>>
        ELSE p.cin[1] = "file"

\* process k exits with the code c
StageExit(k, c) ==
    /\ UNCHANGED <<envVars, wdVars, futVars, fileVars>>
    /\ pphase \in {"waiting", "ran"}
    /\ k \in 1..Len(procs)
    /\ procs[k].exit = <<>>
    /\ procs' = [procs EXCEPT ![k].exit = <<c>>]
    /\ UNCHANGED <<unit, caller, plog, pexc, phandle, pphase, presult, pcall>>

\* a stage that has read its standard input to the end exits
StageExitAtEof(k) ==
    k \in 1..Len(procs) /\ StdinAtEof(k) /\ \E c \in ExitCodes : StageExit(k, c)

\* a stage exits by itself, its standard input not at the end
StageExitEarly(k) ==
    k \in 1..Len(procs) /\ ~StdinAtEof(k) /\ \E c \in ExitCodes : StageExit(k, c)

\* unit.run(retcode, ...) from the point where proc.communicate() unblocks: the
\* process of the handle has exited, writing out; _run validates its exit code
RunEnd(out) ==
    /\ UNCHANGED <<envVars, wdVars, futVars, fileVars>>
    /\ pphase = "waiting"
    /\ procs[phandle].exit # <<>>
    /\ LET c == procs[phandle].exit[1]
           w == RunProc([procs |-> procs, log |-> plog, exc |-> "none"],
                        phandle, Retcode(pcall[1].retcode), c, out)
       IN  /\ procs' = w.st.procs
           /\ pexc' = w.exc
           /\ presult' = w.result
           /\ pcall' = << [retcode |-> pcall[1].retcode, code |-> c, out |-> out] >>
    /\ pphase' = "ran"
    /\ UNCHANGED <<unit, caller, plog, phandle>>

RunNext ==
    \/ \E arg \in RetcodeArgs : RunBegin(arg)
    \/ \E k \in 1..MaxStages : StageExitAtEof(k)
    \/ \E k \in 1..MaxStages : StageExitEarly(k)
    \/ \E out \in Outputs : RunEnd(out)

ProcNext ==
    \/ UnitPopen
    \/ \E arg \in RetcodeArgs : \E c \in ExitCodes : \E out \in Outputs : UnitRun(arg, c, out)

(***************************************************************************)
(* Future                                                                  *)
(***************************************************************************)
\* the policies the client gives to BG: BG (expect 0), BG(1), BG(None)
FutPolicies == { IntPolicy(0), IntPolicy(1), AnyPolicy }

\* the units the client runs in the background
FutUnits == { u \in Units : ~HasRedir(u) /\ Len(Leaves(u)) <= 2 }

\* Future.__init__
NewFuture(h, pol) ==
    [proc |-> h, expected |-> pol, returncode |-> <<>>, stdout |-> NoText, stderr |-> NoText]

\* Future.ready: self._returncode is not None
Ready(f) == f.returncode # <<>>

\* Future.wait: [fut, st, exc]
WaitFuture(f, st, c, out) ==
    LET w == RunProc(st, f.proc, f.expected, c, out)
    IN  IF Ready(f) THEN [fut |-> f, st |-> st, exc |-> "none"]
        ELSE IF w.exc # "none" THEN [fut |-> f, st |-> w.st, exc |-> w.exc]
        ELSE [fut |-> [f EXCEPT !.returncode = <<w.result[1]>>,
                                !.stdout = w.result[2],
                                !.stderr = w.result[3]],
              st |-> w.st, exc |-> "none"]

FutInit ==
    /\ unit \in FutUnits
    /\ caller = <<PIPE, PIPE, PIPE>>
    /\ procs = <<>>
    /\ plog = <<>>
    /\ pexc = "none"
    /\ phandle = 0
    /\ pphase = "built"
    /\ presult = <<>>
    /\ pcall = <<>>
    /\ fut = <<>>
    /\ fobs = <<>>

\* _BG.__rand__: Future(cmd.popen(), self.retcode)
FutBG(pol) ==
    /\ UNCHANGED <<envVars, wdVars, fileVars>>
    /\ pphase = "built"
    /\ LET r == PopenUnit(unit, PIPE, PIPE, PIPE,
                          [procs |-> procs, log |-> plog, exc |-> "none"])
       IN  /\ procs' = r.st.procs
           /\ plog' = r.st.log
           /\ pexc' = r.st.exc
           /\ phandle' = r.h
           /\ fut' = IF r.st.exc = "none" THEN <<NewFuture(r.h, pol)>> ELSE <<>>
    /\ pphase' = "bg"
    /\ UNCHANGED <<unit, caller, presult, pcall, fobs>>

\* a call on the Future: wait(), or an accessor, which calls wait() and returns
\* the cached field; the client sees <<call, exception, value>>
FutCall(call, c, out) ==
    /\ UNCHANGED <<envVars, wdVars, fileVars>>
    /\ fut # <<>>
    /\ Len(fobs) < MaxCalls
    /\ LET w == WaitFuture(fut[1], [procs |-> procs, log |-> plog, exc |-> "none"], c, out)
           val == IF w.exc # "none" \/ call = "wait" THEN <<>>
                  ELSE IF call = "stdout" THEN <<w.fut.stdout>>
                  ELSE IF call = "stderr" THEN <<w.fut.stderr>>
                  ELSE w.fut.returncode
       IN  /\ fut' = <<w.fut>>
           /\ procs' = w.st.procs
           /\ pexc' = w.exc
           /\ fobs' = Append(fobs, <<call, w.exc, val>>)
    /\ UNCHANGED <<unit, caller, plog, phandle, pphase, presult, pcall>>

\* Future.wait
FutWait == \E c \in ExitCodes : \E out \in Outputs : FutCall("wait", c, out)
\* Future.stdout
FutStdout == \E c \in ExitCodes : \E out \in Outputs : FutCall("stdout", c, out)
\* Future.stderr
FutStderr == \E c \in ExitCodes : \E out \in Outputs : FutCall("stderr", c, out)
\* Future.returncode
FutReturncode == \E c \in ExitCodes : \E out \in Outputs : FutCall("returncode", c, out)

\* Future.ready
FutReady ==
    /\ UNCHANGED <<envVars, wdVars, procVars, fileVars>>
    /\ fut # <<>>
    /\ Len(fobs) < MaxCalls
    /\ fobs' = Append(fobs, <<"ready", "none", <<Ready(fut[1])>> >>)
    /\ UNCHANGED fut

FutNext ==
    \/ \E pol \in FutPolicies : FutBG(pol)
    \/ FutWait
    \/ FutStdout
    \/ FutStderr
    \/ FutReturncode
    \/ FutReady

(***************************************************************************)
(* A Redirection, its open files, and its runs                             *)
(***************************************************************************)
\* the in-memory payloads a client gives with <<, and the contents of files
Payloads == { <<"h">>, <<"h", "i">> }
\* what a named output file holds before the client redirects to it
OldOutputs == { <<>>, <<"o", "l", "d">> }
\* what a process writes to its standard output in one run
Written == { <<"x">>, <<"y", "z">> }
\* the temporary file of _make_input
TmpName == "tmp"
\* a stream the wrapper does not redirect: the process gets a pipe of the run
NoInput == <<"pipe">>

\* the parameter CHUNK_SIZE of _make_input
CHUNK_SIZE == 32000

\* an open file object: the open file's name and position
FileObj(name, pos) == [name |-> name, pos |-> pos]

\* open(name, "w") creates or truncates the file
OpenWrite(fs, name) == DictSet(fs, name, <<>>)

\* _make_input, its loop: the data is written chunk by chunk
RECURSIVE WriteChunks(_, _)
WriteChunks(content, data) ==
    IF data = <<>> THEN content
    ELSE LET n == IF Len(data) < CHUNK_SIZE THEN Len(data) ELSE CHUNK_SIZE
         IN  WriteChunks(content \o SubSeq(data, 1, n), SubSeq(data, n + 1, Len(data)))

\* what a process whose standard input is the open file f finds there: the
\* file's contents from the position of the open file on (the process and the
\* parent share the open file and its position)
Available(fs, f) == SubSeq(fs[f.name], f.pos + 1, Len(fs[f.name]))

\* the open file after the process has read it to the end, or not at all
AfterRead(fs, f, reads) == IF reads THEN FileObj(f.name, Len(fs[f.name])) ELSE f

\* the file after a process whose standard output is the open file f has written w:
\* w lies at the position of the open file
AfterWrite(fs, f, w) ==
    LET old == fs[f.name]
        tail == SubSeq(old, f.pos + Len(w) + 1, Len(old))
    IN  DictSet(fs, f.name, SubSeq(old, 1, f.pos) \o w \o tail)

FileInit ==
    /\ \E c \in Payloads : \E o \in OldOutputs :
           files = [n \in {"in", "out"} |-> IF n = "in" THEN c ELSE o]
    /\ wrapper = <<>>
    /\ runs = <<>>

\* cmd << data: Redirection(cmd, stdin_file = _make_input(data)); _make_input
\* writes the data to a new temporary file and seeks to its start
BuildData(data) ==
    /\ UNCHANGED <<envVars, wdVars, procVars, futVars>>
    /\ wrapper = <<>>
    /\ files' = DictSet(files, TmpName, WriteChunks(<<>>, data))
    /\ wrapper' = << [stream |-> "stdin", file |-> FileObj(TmpName, 0), given |-> data] >>
    /\ UNCHANGED runs

\* cmd < "in": Redirection.__init__ opens the named file for reading
BuildInput(name) ==
    /\ UNCHANGED <<envVars, wdVars, procVars, futVars>>
    /\ wrapper = <<>>
    /\ name \in DOMAIN files
    /\ wrapper' = << [stream |-> "stdin", file |-> FileObj(name, 0), given |-> files[name]] >>
    /\ UNCHANGED <<files, runs>>

\* cmd > "out": Redirection.__init__ opens the named file for writing
BuildOutput(name) ==
    /\ UNCHANGED <<envVars, wdVars, procVars, futVars>>
    /\ wrapper = <<>>
    /\ files' = OpenWrite(files, name)
    /\ wrapper' = << [stream |-> "stdout", file |-> FileObj(name, 0), given |-> NoInput] >>
    /\ UNCHANGED runs

\* wrapper.run(): Redirection.popen hands the wrapper's file object to the
\* process, which reads its standard input to the end or not at all (reads)
\* and writes w to its standard output
RunWrapper(w, reads) ==
    /\ UNCHANGED <<envVars, wdVars, procVars, futVars>>
    /\ wrapper # <<>>
    /\ Len(runs) < MaxRuns
    /\ LET f == wrapper[1].file
       IN  IF wrapper[1].stream = "stdin"
              THEN /\ runs' = Append(runs, [found |-> Available(files, f), wrote |-> w])
                   /\ wrapper' = << [wrapper[1] EXCEPT !.file = AfterRead(files, f, reads)] >>
                   /\ files' = files
              ELSE /\ runs' = Append(runs, [found |-> NoInput, wrote |-> w])
                   /\ wrapper' = << [wrapper[1] EXCEPT !.file = FileObj(f.name, f.pos + Len(w))] >>
                   /\ files' = AfterWrite(files, f, w)

FileNext ==
    \/ \E data \in Payloads : BuildData(data)
    \/ BuildInput("in")
    \/ BuildOutput("out")
    \/ \E w \in Written : \E reads \in BOOLEAN : RunWrapper(w, reads)

(***************************************************************************)
(* Specifications                                                          *)
(***************************************************************************)
\* a machine that is not running: constructed and left alone
EnvIdle ==
    /\ envstack = << [n \in {"PATH"} |-> <<"a">>] >>
    /\ path = UpdatePath(envstack)
    /\ eblocks = <<>> /\ eexc = "none" /\ eleft = <<>> /\ elast = "init"
    /\ spawned = <<>>

WdIdle ==
    /\ dirstack = <<"/">> /\ oscwd = "/"
    /\ wblocks = <<>> /\ wexc = "none" /\ wleft = <<>> /\ wlast = "init"

ProcIdle ==
    /\ unit = Cmd("a") /\ caller = <<PIPE, PIPE, PIPE>>
    /\ procs = <<>> /\ plog = <<>> /\ pexc = "none" /\ phandle = 0
    /\ pphase = "built" /\ presult = <<>> /\ pcall = <<>>

FutIdle == fut = <<>> /\ fobs = <<>>

FileIdle ==
    /\ files = [n \in {"in", "out"} |-> <<>>]
    /\ wrapper = <<>> /\ runs = <<>>

InitEnv == EnvInit /\ WdIdle /\ ProcIdle /\ FutIdle /\ FileIdle

SpecEnv == InitEnv /\ [][EnvNext]_vars

InitSnap == EnvIdle /\ WdIdle /\ ProcIdle /\ FutIdle /\ FileIdle

SpecSnap == InitSnap /\ [][SnapNext]_vars

InitWd == WdInit /\ EnvIdle /\ ProcIdle /\ FutIdle /\ FileIdle

SpecWd == InitWd /\ [][WdNext]_vars

InitPipe == ProcInit /\ EnvIdle /\ WdIdle /\ FutIdle /\ FileIdle

SpecPipe == InitPipe /\ [][ProcNext]_vars

InitFut == FutInit /\ EnvIdle /\ WdIdle /\ FileIdle

SpecFut == InitFut /\ [][FutNext]_vars

\* a unit inside nested Redirection wrappers, before popen / run
InitRedir ==
    /\ unit \in WrappedUnits
    /\ caller \in Callers
    /\ procs = <<>> /\ plog = <<>> /\ pexc = "none" /\ phandle = 0
    /\ pphase = "built" /\ presult = <<>> /\ pcall = <<>>
    /\ EnvIdle /\ WdIdle /\ FutIdle /\ FileIdle

SpecRedir == InitRedir /\ [][ProcNext]_vars

InitRerun == FileInit /\ EnvIdle /\ WdIdle /\ ProcIdle /\ FutIdle

SpecRerun == InitRerun /\ [][FileNext]_vars

InitRun == ProcInit /\ EnvIdle /\ WdIdle /\ FutIdle /\ FileIdle

\* run() with the processes as agents of their own
SpecRun == InitRun /\ [][RunNext]_vars

\* the operating system runs every process: a stage whose standard input is at
\* its end exits, and a communicate() whose process has exited returns
SpecRunLive ==
    /\ SpecRun
    /\ \A k \in 1..MaxStages : WF_vars(StageExitAtEof(k))
    /\ WF_vars(\E out \in Outputs : RunEnd(out))

(***************************************************************************)
(* Claims about the scoped context stacks                                  *)
(***************************************************************************)
\* C1: when a `with env(...)` block that held a nested `with env(...)` block has
\* been left, and the bodies did only single-variable writes, spawns and
\* raises, the active view equals the view before the outer push: the active
\* frame variable for variable, and the dict handed to the next spawned process.
ClaimC1_NestedScopesRestore ==
    (/\ eleft # <<>>
     /\ eleft[1].how \in {"normal", "body raised"}
     /\ eleft[1].nested
     /\ eleft[1].plain)
    => /\ Last(envstack) = eleft[1].before.frame
       /\ Getdict(envstack, path) = eleft[1].before.handed

\* C2: after every entry to and exit from a `with cwd(...)` block and after every
\* direct chdir, the OS-level current directory is the top of the directory stack.
ClaimC2_OsCwdIsTop ==
    wlast \in {"enter", "exit", "chdir"} => oscwd = StrOf(Last(dirstack))

\* C3: a scoped block of either stack, however it ends (normally, by an exception
\* of its body, or by an exception of applying the override on entry), leaves the
\* stack as deep as before the block with the same top; no stack is ever empty.
ClaimC3_ScopesBalanced ==
    /\ Len(envstack) >= 1
    /\ Len(dirstack) >= 1
    /\ eleft # <<>> => /\ Len(envstack) = eleft[1].before.depth
                       /\ Last(envstack) = eleft[1].before.frame
    /\ wleft # <<>> => /\ Len(dirstack) = wleft[1].before.depth
                       /\ Last(dirstack) = wleft[1].before.top

\* C4: after setting PATH, update, entering a scoped override and leaving one,
\* the search-path list is the active frame's PATH split on the separator.
ClaimC4_PathInSync ==
    (/\ elast \in {"set PATH", "update", "enter", "exit"}
     /\ "PATH" \in DOMAIN Last(envstack))
    => path = UpdatePath(envstack)

(***************************************************************************)
(* Claims about Pipeline                                                   *)
(***************************************************************************)
\* event a is logged before event b
Before(log, a, b) ==
    \E x \in 1..Len(log) : \E y \in 1..Len(log) : x < y /\ log[x] = a /\ log[y] = b

\* C5: for every Pipeline.popen that returned a handle, at every nesting level:
\* every process of the source unit was spawned before every process of the
\* destination unit, and the parent closed the source's stdout and stderr after
\* the destination's processes were spawned and before the return.
ClaimC5_SpawnOrder ==
    \A r \in 1..Len(plog) :
        plog[r][1] = "return" =>
            LET src == plog[r][2]
                dst == plog[r][3]
                srcprocs == plog[r][4]..(plog[r][5] - 1)
                dstprocs == plog[r][5]..plog[r][6]
            IN  /\ src \in srcprocs
                /\ dst \in dstprocs
                /\ \A s \in srcprocs : \A d \in dstprocs :
                       Before(plog, <<"spawn", s>>, <<"spawn", d>>)
                /\ \A stream \in {"stdout", "stderr"} :
                       /\ \A d \in dstprocs :
                              Before(plog, <<"spawn", d>>, <<"close", src, stream>>)
                       /\ Before(plog, <<"close", src, stream>>, plog[r])

\* a nested Pipeline was spawned: two Pipeline.popen calls returned
WitnessC5_NestedReturned ==
    /\ pphase = "spawned"
    /\ pexc = "none"
    /\ Cardinality({ r \in 1..Len(plog) : plog[r][1] = "return" }) = 2
    /\ procs[1].hout = "closed" /\ procs[1].herr = "closed"

\* C6: spawning a Pipeline completes without error and returns the destination's
\* handle, for every source unit, also one wrapped in a Redirection of its
\* output or error stream.
ClaimC6_PipelineSpawnCompletes ==
    (pphase = "spawned" /\ unit[1] = "pipe") => (pexc = "none" /\ phandle = Len(procs))

\* C7: when run() on a Pipeline has returned, the source process recorded on the
\* destination's handle has been waited on and its exit code collected.
ClaimC7_RunCollectsSource ==
    (/\ pphase = "ran"
     /\ pexc = "none"
     /\ phandle # 0
     /\ procs[phandle].srcproc # 0)
    => procs[procs[phandle].srcproc].rc # <<>>

\* C8: one spawn of a chain of N >= 2 commands built by nesting Pipelines spawns
\* exactly N processes, stage k+1 reads the stdout pipe of stage k, the caller's
\* stdin goes to the first stage only, and the caller's stdout and stderr go to
\* the last stage only (every other stage writes to pipes of its own).
ClaimC8_Wiring ==
    (pphase # "built" /\ ~HasRedir(unit) /\ Len(Leaves(unit)) >= 2)
    => LET N == Len(Leaves(unit))
       IN  /\ pexc # "AttributeError"
           /\ Len(procs) = N
           /\ \A k \in 1..N : procs[k].exe = Leaves(unit)[k]
           /\ procs[1].cin = caller[1]
           /\ \A k \in 1..(N - 1) :
                  /\ procs[k + 1].cin = Handle(k, "stdout")
                  /\ procs[k].cout = PIPE
                  /\ procs[k].cerr = PIPE
           /\ procs[N].cout = caller[2]
           /\ procs[N].cerr = caller[3]

\* a right-nested chain of three commands was spawned with the caller's files
WitnessC8_ThreeStages ==
    /\ pphase = "spawned"
    /\ ~HasRedir(unit)
    /\ Len(Leaves(unit)) = 3
    /\ unit[3][1] = "pipe"
    /\ caller = <<File("in"), File("out"), File("err")>>
    /\ Len(procs) = 3
    /\ procs[3].cin = Handle(2, "stdout")

(***************************************************************************)
(* Claims about Future                                                     *)
(***************************************************************************)
\* C9: two calls of wait() give identical results; once the Future is resolved,
\* every read of stdout, stderr and returncode gives the same value as the
\* reads before it, and the process is communicated with once only.
ClaimC9_FutureIdempotent ==
    /\ \A x \in 1..Len(fobs) : \A y \in 1..Len(fobs) :
           (fobs[x][1] = "wait" /\ fobs[y][1] = "wait") => fobs[x] = fobs[y]
    /\ \A x \in 1..Len(fobs) : \A y \in 1..Len(fobs) :
           (/\ x < y
            /\ fobs[x][1] \in {"stdout", "stderr", "returncode"}
            /\ fobs[x][1] = fobs[y][1]
            /\ fobs[x][2] = "none")
           => fobs[x] = fobs[y]
    /\ (fut # <<>> /\ Ready(fut[1])) => procs[fut[1].proc].comm = 1

\* C10: for every expected-exit-code policy, after the first wait() or accessor
\* the Future is resolved (ready() is true), and the process's output is
\* collected at most once whatever calls follow.
ClaimC10_ResolvesOnce ==
    fut # <<>> =>
        /\ (\E x \in 1..Len(fobs) : fobs[x][1] # "ready") => Ready(fut[1])
        /\ procs[fut[1].proc].comm <= 1

(***************************************************************************)
(* Claims about run() and the expected-exit-code policy                    *)
(***************************************************************************)
\* the text run() has captured from a stream of the waited-for process: what the
\* process wrote when the stream is a pipe to the parent, else the empty text
Captured(p, wrote) == IF p = PIPE THEN wrote ELSE ""

\* C11: for every unit whose spawn returned a handle and every exit code c of the
\* waited-for process: with an integer policy e, run() returns <<c, stdout,
\* stderr>> when c = e and raises ProcessExecutionError carrying c, both texts
\* and the command line when c # e; a retcode left out is the policy 0; with
\* the policy 'accept any' run() returns for every c.
ClaimC11_ExitCodeValidation ==
    (/\ pphase = "ran"
     /\ phandle # 0
     /\ pcall[1].retcode \in {Omitted, IntPolicy(0), IntPolicy(1), AnyPolicy})
    => LET a == pcall[1]
           p == procs[phandle]
           e == IF a.retcode = Omitted THEN IntPolicy(0) ELSE a.retcode
           texts == << Captured(p.cout, a.out[1]), Captured(p.cerr, a.out[2]) >>
       IN  IF e = AnyPolicy \/ a.code = e[2]
              THEN /\ pexc = "none"
                   /\ presult = <<a.code>> \o texts
              ELSE /\ pexc = "ProcessExecutionError"
                   /\ presult = <<a.code>> \o texts \o << <<p.exe>> >>

\* run() of a pipeline without a retcode argument raised for the exit code 1 and
\* carries the texts the destination wrote
WitnessC11_DefaultPolicyRaised ==
    /\ pphase = "ran"
    /\ unit[1] = "pipe"
    /\ pcall # <<>>
    /\ pcall[1].retcode = Omitted
    /\ pexc = "ProcessExecutionError"
    /\ presult = <<1, "x", "y", <<procs[phandle].exe>> >>

\* C12: with a set of acceptable exit codes as the policy, run() returns when
\* the exit code is a member of the set and raises ProcessExecutionError only
\* when it is not.
ClaimC12_SetPolicy ==
    (/\ pphase = "ran"
     /\ phandle # 0
     /\ pcall[1].retcode[1] = "set")
    => IF pcall[1].code \in pcall[1].retcode[2]
          THEN pexc = "none" /\ presult[1] = pcall[1].code
          ELSE pexc = "ProcessExecutionError"

\* C13: when run() raises ProcessExecutionError, for every unit, no process the
\* run spawned is still running, and the parent holds no open pipe from the
\* waited-for process: its standard output and error have been read to the end.
ClaimC13_RaisedAfterExit ==
    (pphase = "ran" /\ pexc = "ProcessExecutionError")
    => /\ \A k \in 1..Len(procs) : procs[k].exit # <<>>
       /\ procs[phandle].hout # "open"
       /\ procs[phandle].herr # "open"

\* C16: while the parent is blocked in run() of a pipeline with the default
\* streams, it holds no standard-input pipe of a running stage open; and the
\* run() returns, every stage exiting once its standard input is at its end.
ClaimC16_PipelineRunTerminates ==
    /\ []((/\ pphase = "waiting"
           /\ unit[1] = "pipe"
           /\ caller = <<PIPE, PIPE, PIPE>>)
          => \A k \in 1..Len(procs) :
                 (k # phandle /\ procs[k].exit = <<>>) => procs[k].hin # "open")
    /\ ((/\ pphase = "waiting"
         /\ unit[1] = "pipe"
         /\ caller = <<PIPE, PIPE, PIPE>>) ~> (pphase = "ran"))

(***************************************************************************)
(* Claims about Redirection                                                *)
(***************************************************************************)
\* the Redirection wrappers around a unit, the outermost first
RECURSIVE WrappersOf(_)
WrappersOf(u) == IF u[1] = "redir" THEN <<u>> \o WrappersOf(u[2]) ELSE <<>>

\* the endpoint of the innermost wrapper of u that is not pass-through for
\* stream s (1 stdin, 2 stdout, 3 stderr), or the caller's endpoint c
Resolved(u, s, c) ==
    LET ws == WrappersOf(u)
        concrete == { k \in 1..Len(ws) : ws[k][2 + s] # PIPE }
    IN  IF concrete = {} THEN c
        ELSE ws[CHOOSE k \in concrete : \A j \in concrete : j <= k][2 + s]

\* C14: for every nesting of Redirection wrappers around a command or a
\* pipeline, every caller's choice and each stream by itself: the process that
\* gets the unit's stream (the first for stdin, the last for stdout and stderr)
\* is spawned with the endpoint of the innermost wrapper that is not
\* pass-through for the stream, and with the caller's when all of them are.
ClaimC14_InnermostEndpoint ==
    pphase # "built"
    => /\ pexc # "AttributeError"
       /\ Len(procs) = Len(Leaves(unit))
       /\ procs[1].cin = Resolved(unit, 1, caller[1])
       /\ procs[Len(procs)].cout = Resolved(unit, 2, caller[2])
       /\ procs[Len(procs)].cerr = Resolved(unit, 3, caller[3])

\* (cmd > f) > g was spawned by a caller that passes files of its own; the
\* process writes to f and reads the caller's file
WitnessC14_TwoWrappersOneStream ==
    /\ pphase = "spawned"
    /\ unit = Redir(Redir(Cmd("a"), PIPE, File("f"), PIPE), PIPE, File("g"), PIPE)
    /\ caller = <<File("in"), File("out"), File("err")>>
    /\ procs[1].cout = File("f")
    /\ procs[1].cin = File("in")

ClaimC17_SpawnReadOnly == [][elast' = "spawn" => envstack' = envstack]_vars

(***************************************************************************)
(* Claims about the handles of a Pipeline                                  *)
(***************************************************************************)
\* the processes reached from the handle h by following srcproc, h included
RECURSIVE Upstream(_, _)
Upstream(ps, h) == IF h = 0 THEN {} ELSE {h} \cup Upstream(ps, ps[h].srcproc)

\* C18: when the spawn of a composite of Pipelines, nested to the left or to the
\* right, has returned a handle, every process the spawn made is reached from
\* that handle by following the upstream references.
ClaimC18_UpstreamCoversStages ==
    (pphase = "spawned" /\ pexc = "none" /\ phandle # 0)
    => Upstream(procs, phandle) = 1..Len(procs)

(***************************************************************************)
(* Claims about running a Redirection again                                *)
(***************************************************************************)
\* C19: every run of a Redirection built with an in-memory payload or a named
\* input file finds the whole payload on its standard input, and after every
\* run of a Redirection to a named output file the file holds what that run
\* wrote and nothing else.
ClaimC19_Rerunnable ==
    wrapper # <<>> =>
        /\ wrapper[1].stream = "stdin"
              => \A r \in 1..Len(runs) : runs[r].found = wrapper[1].given
        /\ (wrapper[1].stream = "stdout" /\ runs # <<>>)
              => files[wrapper[1].file.name] = Last(runs).wrote

=============================================================================
